---- MODULE Spec2Model ----
(***************************************************************************)
(* Echo example of avr-can-lib (examples/Echo/Echo/main.c): an ATmega88A   *)
(* with an MCP2515 sends one frame after reset and then echoes every       *)
(* received frame with its identifier raised by 10.                        *)
(*                                                                         *)
(* The program (main, can_filter, the filter/mask truth table) is          *)
(* translated from main.c.  The MCP2515 driver behind can.h                *)
(* (can_init, can_static_filter, can_check_message, can_get_message,       *)
(* can_send_message, MCP2515_FILTER, MCP2515_FILTER_EXTENDED) is not part  *)
(* of main.c; it is modelled from the written description of the           *)
(* collaborator operations.                                                *)
(***************************************************************************)
EXTENDS Integers, Sequences, FiniteSets, TLC

VARIABLES
    pc,           \* position of main()
    led,          \* PORTC bit PC3
    msg,          \* can_t msg of main's outer scope (line 202)
    msg_loop,     \* can_t msg of the loop body (line 226)
    initialized,  \* MCP2515 brought up by can_init
    installed,    \* filter/mask table loaded into the MCP2515 (<<>>: none)
    rx,           \* frames accepted by the MCP2515 and not yet read
    filhit,       \* <<set of filters the last frame on the bus matched>>
    probe,        \* frame put on the bus in the acceptance specification
    last,         \* last driver call of main and what it returned
    got,          \* frame the last successful can_get_message delivered
    nPoll,        \* number of can_check_message calls
    nRecvOk,      \* number of successful can_get_message calls
    nRecvFail,    \* number of failed can_get_message calls
    nSend,        \* number of can_send_message calls
    nSeedTx,      \* number of can_send_message calls carrying the seed frame
    nSendFail     \* number of can_send_message calls that failed

vars == <<pc, led, msg, msg_loop, initialized, installed, rx, filhit, probe,
          last, got, nPoll, nRecvOk, nRecvFail, nSend, nSeedTx,
                   nSendFail>>

-----------------------------------------------------------------------------
(* Bounds of the model *)

\* can_check_message calls explored
MaxPolls == 3

\* frames the receive side holds before further frames are lost
MaxQueue == 2

-----------------------------------------------------------------------------
(* Numbers of the program *)

\* msg.id += 10
OFFSET == 10

\* msg.id = 0x123456
SEED_ID == 1193046

\* msg.length = 4
SEED_LENGTH == 4

\* msg.data[0..3] = 0xDE, 0xAD, 0xBE, 0xEF
SeedData == <<222, 173, 190, 239>>

\* width of can_t.id (uint32_t)
IdWidth == 32

\* widths of the two identifier formats
StdBits == 11

ExtBits == 29

\* bits of an extended identifier below the standard part
EidBits == ExtBits - StdBits

Bit(x, n) == (x \div (2 ^ n)) % 2

\* x + k in a uint32_t, computed on the two 16 bit halves of x
Add32(x, k) ==
    LET half == 2 ^ (IdWidth \div 2)
        lo   == (x % half) + k
        hi   == ((x \div half) + (lo \div half)) % half
    IN  hi * half + (lo % half)

-----------------------------------------------------------------------------
(* can_t and frames on the bus *)

\* a can_t: data is the 8 byte array, of which the first `length' are payload
CanT(id, ext, rtr, len, data) ==
    [id |-> id, extended |-> ext, rtr |-> rtr, length |-> len, data |-> data]

Zero8 == <<0, 0, 0, 0, 0, 0, 0, 0>>

Ones8 == <<255, 255, 255, 255, 255, 255, 255, 255>>

\* no frame (a value of the shape of can_t that no frame has)
NoFrame == CanT(-1, FALSE, FALSE, 0, Zero8)

\* values an uninitialised can_t on the stack may hold
Indeterminate ==
    { CanT(0, FALSE, FALSE, 0, Zero8),
      CanT(2 ^ (IdWidth - 2), TRUE, TRUE, 8, Ones8) }

\* the bytes of a can_t that go on the bus
Payload(m) == SubSeq(m.data, 1, m.length)

\* a frame on the bus: its payload has exactly `length' bytes
Wire(id, ext, rtr, payload) ==
    [id |-> id, extended |-> ext, rtr |-> rtr, length |-> Len(payload),
     data |-> payload]

\* what a can_t puts on the bus
ToWire(m) == Wire(m.id, m.extended, m.rtr, Payload(m))

-----------------------------------------------------------------------------
(* Acceptance filtering of the MCP2515 *)

\* a filter or mask register: the standard part of the identifier, the
\* identifier-width tag, and the extended part of the identifier
MCP2515_FILTER(id) ==
    [sid |-> id % (2 ^ StdBits), exide |-> FALSE, eid |-> 0]

MCP2515_FILTER_EXTENDED(id) ==
    [sid   |-> (id \div (2 ^ EidBits)) % (2 ^ StdBits),
     exide |-> TRUE,
     eid   |-> id % (2 ^ EidBits)]

\* the identifier of a frame as the acceptance logic sees it
HwId(f) ==
    IF f.extended THEN MCP2515_FILTER_EXTENDED(f.id) ELSE MCP2515_FILTER(f.id)

\* the truth table with the row mask 1, filter 0, identifier 0 rejecting
TruthTable_RejectsZeroMatch(maskBit, filterBit, idBit) ==
    maskBit = 0 \/ (filterBit = 1 /\ idBit = 1)

\* the truth table without its first row: the mask bit is not looked at
TruthTable_IgnoresMask(maskBit, filterBit, idBit) ==
    filterBit = idBit

\* TABLE 4-2: FILTER/MASK TRUTH TABLE (Accept = TRUE, Reject = FALSE)
TruthTable(maskBit, filterBit, idBit) ==
    CASE maskBit = 0                                -> TRUE
      [] maskBit = 1 /\ filterBit = 0 /\ idBit = 0  -> TRUE
      [] maskBit = 1 /\ filterBit = 0 /\ idBit = 1  -> FALSE
      [] maskBit = 1 /\ filterBit = 1 /\ idBit = 0  -> FALSE
      [] maskBit = 1 /\ filterBit = 1 /\ idBit = 1  -> TRUE

\* a filter compared without its width tag
FilterMatch_IgnoresWidth(mask, filter, f) ==
    LET id == HwId(f)
    IN  /\ \A n \in 0 .. StdBits - 1 :
              TruthTable(Bit(mask.sid, n), Bit(filter.sid, n), Bit(id.sid, n))
        /\ f.extended =>
              \A n \in 0 .. EidBits - 1 :
                 TruthTable(Bit(mask.eid, n), Bit(filter.eid, n), Bit(id.eid, n))

\* one filter with its mask: the width tags agree and every bit is accepted
FilterMatch(mask, filter, f) ==
    LET id == HwId(f)
    IN  /\ filter.exide = f.extended
        /\ \A n \in 0 .. StdBits - 1 :
              TruthTable(Bit(mask.sid, n), Bit(filter.sid, n), Bit(id.sid, n))
        /\ f.extended =>
              \A n \in 0 .. EidBits - 1 :
                 TruthTable(Bit(mask.eid, n), Bit(filter.eid, n), Bit(id.eid, n))

\* Group 0: Filter 0 and 1 with mask 0.  Group 1: Filter 2, 3, 4, 5 with mask 1.
Groups == {0, 1}

GroupFilters(g) == IF g = 0 THEN {0, 1} ELSE {2, 3, 4, 5}

\* position in the table of filter k, and of the mask of group g
FilterAt(table, k) == table[k + 1]

MaskAt(table, g) == table[7 + g]

FilterHits(table, f) ==
    { k \in 0 .. 5 :
        \E g \in Groups :
           /\ k \in GroupFilters(g)
           /\ FilterMatch(MaskAt(table, g), FilterAt(table, k), f) }

\* a group accepts a frame that one of its filters matches
GroupHit(hits, g) == hits \cap GroupFilters(g) # {}

GroupAccepts(table, g, f) == GroupHit(FilterHits(table, f), g)

\* a frame is accepted if any group accepts it
Accepted(hits) == \E g \in Groups : GroupHit(hits, g)

TableAccepts(table, f) == Accepted(FilterHits(table, f))

\* can_filter with mask 1 written 0, as in the documentation comment
can_filter_Group1AcceptsAll ==
    << MCP2515_FILTER(0), MCP2515_FILTER(0),
       MCP2515_FILTER(255), MCP2515_FILTER(255),
       MCP2515_FILTER(255), MCP2515_FILTER(255),
       MCP2515_FILTER(2035),
       MCP2515_FILTER(0) >>

\* can_filter with mask 0 written 0x7E3
can_filter_WideMask ==
    << MCP2515_FILTER(0), MCP2515_FILTER(0),
       MCP2515_FILTER(255), MCP2515_FILTER(255),
       MCP2515_FILTER(255), MCP2515_FILTER(255),
       MCP2515_FILTER(2019),
       MCP2515_FILTER(2047) >>

\* Group 0: accept messages with ID = 0x000, 0x004, 0x008, 0x00C
\* Group 1: accept only 1 message with ID = 0x0FF
can_filter ==
    << MCP2515_FILTER(0),      \* Filter 0
       MCP2515_FILTER(0),      \* Filter 1
       MCP2515_FILTER(255),    \* Filter 2
       MCP2515_FILTER(255),    \* Filter 3
       MCP2515_FILTER(255),    \* Filter 4
       MCP2515_FILTER(255),    \* Filter 5
       MCP2515_FILTER(2035),   \* Mask 0 (for group 0): 0x7F3
       MCP2515_FILTER(2047) >> \* Mask 1 (for group 1): 0x7FF

\* the three tables of the documentation comment
FilterStdOnly ==
    [k \in 1 .. 8 |-> MCP2515_FILTER(0)]

FilterExtOnly ==
    [k \in 1 .. 8 |-> MCP2515_FILTER_EXTENDED(0)]

FilterBoth ==
    << MCP2515_FILTER(0), MCP2515_FILTER(0),
       MCP2515_FILTER_EXTENDED(0), MCP2515_FILTER_EXTENDED(0),
       MCP2515_FILTER_EXTENDED(0), MCP2515_FILTER_EXTENDED(0),
       MCP2515_FILTER(0), MCP2515_FILTER_EXTENDED(0) >>

-----------------------------------------------------------------------------
(* The bus *)

\* frames other nodes put on the bus while the program runs
BusFrames ==
    { Wire(4, FALSE, FALSE, <<1, 2>>),                 \* 0x004
      Wire(255, FALSE, TRUE, <<>>),                    \* 0x0FF, remote request
      Wire(16, FALSE, FALSE, <<1, 2>>),                \* 0x010
      Wire(2047, FALSE, FALSE, <<>>),                  \* 0x7FF
      Wire(4, TRUE, FALSE, <<1, 2>>),                  \* extended 0x004
      Wire(SEED_ID - OFFSET, TRUE, FALSE, SeedData) }  \* extended 0x12344C

\* A frame appears on the bus.  The MCP2515 compares it with the installed
\* table and keeps it if a group accepts it and a receive buffer is free.
Arrive(f) ==
    /\ installed # <<>>
    /\ LET hits == FilterHits(installed, f)
       IN  /\ filhit' = << hits >>
           /\ rx' = IF Accepted(hits) /\ Len(rx) < MaxQueue
                    THEN Append(rx, f)
                    ELSE rx
    /\ UNCHANGED <<pc, led, msg, msg_loop, initialized, installed, probe,
                   last, got, nPoll, nRecvOk, nRecvFail, nSend, nSeedTx,
                   nSendFail>>

-----------------------------------------------------------------------------
(* The driver calls of main *)

Call(op, ret, frame) == [op |-> op, ret |-> ret, frame |-> frame]

\* the frame of line 204-211 as it goes on the bus
SeedFrame == Wire(SEED_ID, TRUE, FALSE, SeedData)

\* can_init(BITRATE_500_KBPS)
can_init ==
    /\ initialized' = TRUE
    /\ last' = Call("init", TRUE, NoFrame)

\* can_static_filter(table): the table is loaded into the MCP2515
can_static_filter(table) ==
    /\ installed' = table
    /\ last' = Call("filter", TRUE, NoFrame)

\* can_check_message(): true if a frame waits; the MCP2515 may also report a
\* frame that the following read does not find
can_check_message(ret) ==
    /\ ret \in (IF rx # <<>> THEN {TRUE} ELSE {TRUE, FALSE})
    /\ last' = Call("poll", ret, NoFrame)
    /\ nPoll' = nPoll + 1

\* can_get_message(&m) returning true: the oldest frame is copied into m,
\* bytes of m.data beyond the length keep what they held
can_get_message_ok(m) ==
    /\ rx # <<>>
    /\ LET f == Head(rx)
       IN  /\ m' = CanT(f.id, f.extended, f.rtr, f.length,
                        [k \in 1 .. 8 |->
                            IF k <= f.length THEN f.data[k] ELSE m.data[k]])
           /\ got' = f
           /\ last' = Call("recv", TRUE, f)
    /\ rx' = Tail(rx)
    /\ nRecvOk' = nRecvOk + 1
    /\ UNCHANGED nRecvFail

\* can_get_message(&m) returning false: m is left alone; the frame the
\* controller reported, if any, is either still there or lost
can_get_message_fail(m) ==
    /\ m' = m
    /\ rx' \in (IF rx = <<>> THEN {rx} ELSE {rx, Tail(rx)})
    /\ last' = Call("recv", FALSE, NoFrame)
    /\ nRecvFail' = nRecvFail + 1
    /\ UNCHANGED <<got, nRecvOk>>

\* can_send_message(&m): the frame is handed to the MCP2515, which takes it
\* (ok) or has no free transmit buffer
can_send_message(m, ok) ==
    /\ last' = Call("send", ok, m)
    /\ nSend' = nSend + 1
    /\ nSeedTx' = nSeedTx + (IF ToWire(m) = SeedFrame THEN 1 ELSE 0)
    /\ nSendFail' = nSendFail + (IF ok THEN 0 ELSE 1)

-----------------------------------------------------------------------------
(* main() *)

hw == <<initialized, installed, rx, filhit, probe>>

counters == <<nPoll, nRecvOk, nRecvFail, nSend, nSeedTx,
                   nSendFail>>

\* line 167-176: LED pin as output, LED on, off, on
LedBlinkStart ==
    /\ pc = "start"
    /\ led' = TRUE
    /\ pc' = "can_init"
    /\ UNCHANGED <<msg, msg_loop, hw, last, got, counters>>

\* line 180: can_init(BITRATE_500_KBPS)
CanInit ==
    /\ pc = "can_init"
    /\ can_init
    /\ pc' = "blink"
    /\ UNCHANGED <<led, msg, msg_loop, installed, rx, filhit, probe, got,
                   counters>>

\* line 184-191: LED off, on, off, on
LedBlinkInit ==
    /\ pc = "blink"
    /\ led' = TRUE
    /\ pc' = "can_static_filter"
    /\ UNCHANGED <<msg, msg_loop, hw, last, got, counters>>

\* line 195 left out: the table is never loaded
CanStaticFilter_Skipped ==
    /\ pc = "can_static_filter"
    /\ pc' = "create_msg"
    /\ UNCHANGED <<led, msg, msg_loop, hw, last, got, counters>>

\* line 195: can_static_filter(can_filter)
CanStaticFilter ==
    /\ pc = "can_static_filter"
    /\ can_static_filter(can_filter)
    /\ pc' = "create_msg"
    /\ UNCHANGED <<led, msg, msg_loop, initialized, rx, filhit, probe, got,
                   counters>>

\* line 206 with msg.flags.extended = 0
CreateMsg_NotExtended ==
    /\ pc = "create_msg"
    /\ msg' = CanT(SEED_ID, FALSE, FALSE, SEED_LENGTH,
                   [k \in 1 .. 8 |->
                       IF k <= Len(SeedData) THEN SeedData[k] ELSE msg.data[k]])
    /\ pc' = "send_seed"
    /\ UNCHANGED <<led, msg_loop, hw, last, got, counters>>

\* line 204-211: the test message; data[4..7] are not assigned
CreateMsg ==
    /\ pc = "create_msg"
    /\ msg' = CanT(SEED_ID, TRUE, FALSE, SEED_LENGTH,
                   [k \in 1 .. 8 |->
                       IF k <= Len(SeedData) THEN SeedData[k] ELSE msg.data[k]])
    /\ pc' = "send_seed"
    /\ UNCHANGED <<led, msg_loop, hw, last, got, counters>>

\* line 214 repeated until can_send_message succeeds
SendSeed_RetriesOnFailure ==
    /\ pc = "send_seed"
    /\ \E ok \in BOOLEAN :
          /\ can_send_message(msg, ok)
          /\ pc' = IF ok THEN "led_off" ELSE "send_seed"
    /\ UNCHANGED <<led, msg, msg_loop, hw, got, nPoll, nRecvOk, nRecvFail>>

\* line 214: can_send_message(&msg), the result is not looked at
SendSeed ==
    /\ pc = "send_seed"
    /\ \E ok \in BOOLEAN : can_send_message(msg, ok)
    /\ pc' = "led_off"
    /\ UNCHANGED <<led, msg, msg_loop, hw, got, nPoll, nRecvOk, nRecvFail>>

\* line 218: LedOff()
LedOffAfterInit ==
    /\ pc = "led_off"
    /\ led' = FALSE
    /\ pc' = "check"
    /\ UNCHANGED <<msg, msg_loop, hw, last, got, counters>>

\* line 224 with the result of can_check_message not deciding anything
Check_IgnoresResult ==
    /\ pc = "check"
    /\ nPoll < MaxPolls
    /\ \E ret \in BOOLEAN : can_check_message(ret)
    /\ pc' = "get"
    /\ msg_loop' \in Indeterminate
    /\ UNCHANGED <<led, msg, hw, got, nRecvOk, nRecvFail, nSend, nSeedTx,
                   nSendFail>>

\* line 221 as while (can_check_message()): the loop ends when nothing waits
Check_LeavesLoop ==
    /\ pc = "check"
    /\ nPoll < MaxPolls
    /\ \E ret \in BOOLEAN :
          /\ can_check_message(ret)
          /\ IF ret
             THEN /\ pc' = "get"
                  /\ msg_loop' \in Indeterminate
             ELSE /\ pc' = "return"
                  /\ UNCHANGED msg_loop
    /\ UNCHANGED <<led, msg, hw, got, nRecvOk, nRecvFail, nSend, nSeedTx,
                   nSendFail>>

\* line 221-226: while (1) { if (can_check_message()) { can_t msg; ...
\* the msg of the block is not initialised
Check ==
    /\ pc = "check"
    /\ nPoll < MaxPolls
    /\ \E ret \in BOOLEAN :
          /\ can_check_message(ret)
          /\ IF ret
             THEN /\ pc' = "get"
                  /\ msg_loop' \in Indeterminate
             ELSE /\ pc' = "check"
                  /\ UNCHANGED msg_loop
    /\ UNCHANGED <<led, msg, hw, got, nRecvOk, nRecvFail, nSend, nSeedTx,
                   nSendFail>>

\* line 229 with the result of can_get_message not deciding anything
Get_IgnoresResult ==
    /\ pc = "get"
    /\ \/ can_get_message_ok(msg_loop)
       \/ can_get_message_fail(msg_loop)
    /\ pc' = "add"
    /\ UNCHANGED <<led, msg, initialized, installed, filhit, probe, nPoll,
                   nSend, nSeedTx,
                   nSendFail>>

\* line 229 with the filters loaded anew when can_get_message fails
Get_ReinstallsOnFailure ==
    /\ pc = "get"
    /\ \/ /\ can_get_message_ok(msg_loop)
          /\ pc' = "add"
          /\ UNCHANGED installed
       \/ /\ can_get_message_fail(msg_loop)
          /\ installed' = FilterStdOnly
          /\ pc' = "check"
    /\ UNCHANGED <<led, msg, initialized, filhit, probe, nPoll,
                   nSend, nSeedTx, nSendFail>>

\* line 229 with a can_get_message that waits until a frame is there
Get_BlocksUntilFrame ==
    /\ pc = "get"
    /\ can_get_message_ok(msg_loop)
    /\ pc' = "add"
    /\ UNCHANGED <<led, msg, initialized, installed, filhit, probe, nPoll,
                   nSend, nSeedTx, nSendFail>>

\* line 229: if (can_get_message(&msg))
Get ==
    /\ pc = "get"
    /\ \/ /\ can_get_message_ok(msg_loop)
          /\ pc' = "add"
       \/ /\ can_get_message_fail(msg_loop)
          /\ pc' = "check"
    /\ UNCHANGED <<led, msg, initialized, installed, filhit, probe, nPoll,
                   nSend, nSeedTx,
                   nSendFail>>

\* line 232 as msg.id += 1
AddOffset_WrongOffset ==
    /\ pc = "add"
    /\ msg_loop' = [msg_loop EXCEPT !.id = Add32(@, 1)]
    /\ pc' = "send"
    /\ UNCHANGED <<led, msg, hw, last, got, counters>>

\* line 232 followed by msg.flags.rtr = 0, as for the test message
AddOffset_ClearsRtr ==
    /\ pc = "add"
    /\ msg_loop' = [msg_loop EXCEPT !.id = Add32(@, OFFSET), !.rtr = FALSE]
    /\ pc' = "send"
    /\ UNCHANGED <<led, msg, hw, last, got, counters>>

\* line 232 with the sum cut to the width of the identifier
AddOffset_WrapsToWidth ==
    /\ pc = "add"
    /\ msg_loop' = [msg_loop EXCEPT
                      !.id = Add32(@, OFFSET) %
                                (2 ^ (IF msg_loop.extended THEN ExtBits ELSE StdBits))]
    /\ pc' = "send"
    /\ UNCHANGED <<led, msg, hw, last, got, counters>>

\* line 232 as msg.id += 4
AddOffset_AddsFour ==
    /\ pc = "add"
    /\ msg_loop' = [msg_loop EXCEPT !.id = Add32(@, 4)]
    /\ pc' = "send"
    /\ UNCHANGED <<led, msg, hw, last, got, counters>>

\* line 232: msg.id += 10
AddOffset ==
    /\ pc = "add"
    /\ msg_loop' = [msg_loop EXCEPT !.id = Add32(@, OFFSET)]
    /\ pc' = "send"
    /\ UNCHANGED <<led, msg, hw, last, got, counters>>

\* line 235 repeated until can_send_message succeeds
SendEcho_RetriesOnFailure ==
    /\ pc = "send"
    /\ \E ok \in BOOLEAN :
          /\ can_send_message(msg_loop, ok)
          /\ pc' = IF ok THEN "check" ELSE "send"
    /\ UNCHANGED <<led, msg, msg_loop, hw, got, nPoll, nRecvOk, nRecvFail>>

\* line 229 as while (can_get_message(&msg)): after sending, read again
SendEcho_LoopsToGet ==
    /\ pc = "send"
    /\ \E ok \in BOOLEAN : can_send_message(msg_loop, ok)
    /\ pc' = "get"
    /\ UNCHANGED <<led, msg, msg_loop, hw, got, nPoll, nRecvOk, nRecvFail>>

\* line 235: can_send_message(&msg), the result is not looked at
SendEcho ==
    /\ pc = "send"
    /\ \E ok \in BOOLEAN : can_send_message(msg_loop, ok)
    /\ pc' = "check"
    /\ UNCHANGED <<led, msg, msg_loop, hw, got, nPoll, nRecvOk, nRecvFail>>

\* the frames of other nodes
BusTraffic == \E f \in BusFrames : Arrive(f)

Init ==
    /\ pc = "start"
    /\ led = FALSE
    /\ msg \in Indeterminate
    /\ msg_loop = NoFrame
    /\ initialized = FALSE
    /\ installed = <<>>
    /\ rx = <<>>
    /\ filhit = <<>>
    /\ probe = NoFrame
    /\ last = Call("none", FALSE, NoFrame)
    /\ got = NoFrame
    /\ nPoll = 0
    /\ nRecvOk = 0
    /\ nRecvFail = 0
    /\ nSend = 0
    /\ nSeedTx = 0
    /\ nSendFail = 0

Next ==
    \/ LedBlinkStart
    \/ CanInit
    \/ LedBlinkInit
    \/ CanStaticFilter
    \/ CreateMsg
    \/ SendSeed
    \/ LedOffAfterInit
    \/ Check
    \/ Get
    \/ AddOffset
    \/ SendEcho
    \/ BusTraffic

Spec == Init /\ [][Next]_vars

\* the control states of the echo loop
State ==
    CASE pc \in {"start", "can_init", "blink", "can_static_filter",
                 "create_msg", "send_seed"}       -> "BOOT"
      [] pc = "led_off"                           -> "SEED_SENT"
      [] pc \in {"check", "get", "add", "send"}   -> "POLLING"
      [] OTHER                                    -> "RETURNED"

-----------------------------------------------------------------------------
(* Properties of the echo loop *)

\* a can_send_message call of the loop (every call after the first)
EchoSent == last.op = "send" /\ nSend >= 2

\* C1: at boot exactly one can_send_message call is made, with identifier
\* 0x123456, extended, not a remote request, length 4 and payload
\* DE AD BE EF; it is made before the first can_check_message call, and no
\* later call hands that frame to can_send_message again.
C1_SeedOnce ==
    /\ State = "BOOT" => nSend = 0 /\ nSeedTx = 0 /\ nPoll = 0
    /\ State = "SEED_SENT" =>
          /\ nSend = 1 /\ nPoll = 0
          /\ last.op = "send"
          /\ last.frame.id = 1193046
          /\ last.frame.extended
          /\ ~last.frame.rtr
          /\ last.frame.length = 4
          /\ Payload(last.frame) = <<222, 173, 190, 239>>
    /\ State # "BOOT" => nSeedTx = 1
    /\ EchoSent => ToWire(last.frame) # Wire(1193046, TRUE, FALSE, <<222, 173, 190, 239>>)

C1_Witness ==
    /\ nSeedTx = 1
    /\ nPoll >= 2
    /\ EchoSent

\* C2: the frame handed to can_send_message in a cycle has the identifier of
\* the frame can_get_message delivered in that cycle plus 10; the frame
\* 0x004, standard, payload 01 02 is sent back as 0x00E, standard, 01 02.
C2_IdentifierPlusOffset ==
    /\ pc = "add" => last.op = "recv" /\ last.ret /\ ToWire(msg_loop) = got
    /\ pc = "send" => msg_loop.id = got.id + 10
    /\ EchoSent => last.frame.id = got.id + 10
    /\ EchoSent /\ got = Wire(4, FALSE, FALSE, <<1, 2>>) =>
          ToWire(last.frame) = Wire(14, FALSE, FALSE, <<1, 2>>)

C2_Witness ==
    /\ EchoSent
    /\ got = Wire(4, FALSE, FALSE, <<1, 2>>)
    /\ ToWire(last.frame) = Wire(14, FALSE, FALSE, <<1, 2>>)

\* C3: the frame sent back has the extended flag, the remote request flag,
\* the length and the payload bytes of the frame received; only the
\* identifier differs.
C3_OnlyIdentifierChanges ==
    /\ pc = "send" => ToWire(msg_loop) = [got EXCEPT !.id = msg_loop.id]
    /\ EchoSent =>
          /\ last.frame.extended = got.extended
          /\ last.frame.rtr = got.rtr
          /\ last.frame.length = got.length
          /\ Payload(last.frame) = got.data
          /\ last.frame.id # got.id

C3_Witness ==
    /\ EchoSent
    /\ got = Wire(255, FALSE, TRUE, <<>>)
    /\ last.frame.rtr
    /\ last.frame.id = 265

\* C4: after can_check_message returned false, the next driver call is
\* can_check_message again: no can_get_message and no can_send_message call
\* comes in between.
C4_NoFrameIdle ==
    [][ (last.op = "poll" /\ ~last.ret) =>
           /\ last'.op = "poll"
           /\ nSend' = nSend
           /\ nRecvOk' = nRecvOk
           /\ nRecvFail' = nRecvFail ]_vars

C4_Witness ==
    /\ last.op = "poll" /\ ~last.ret
    /\ nPoll = 2
    /\ nRecvOk + nRecvFail = 0
    /\ nSend = 1

\* C5: when can_check_message returned true and can_get_message failed,
\* nothing is sent in that cycle, the loop is back at can_check_message, and
\* a frame received in a later cycle is echoed with identifier + 10 as ever.
C5_ReceiveFailureDropped ==
    [][ /\ (last'.op = "recv" /\ ~last'.ret) => pc' = "check"
        /\ (last.op = "recv" /\ ~last.ret) =>
              /\ last' = last \/ last'.op = "poll"
              /\ nSend' = nSend
        /\ (nRecvFail' > 0 /\ last'.op = "send" /\ nSend' >= 2) =>
              ToWire(last'.frame) = [got' EXCEPT !.id = got'.id + 10] ]_vars

C5_Witness ==
    /\ nRecvFail >= 1
    /\ nRecvOk = 1
    /\ EchoSent
    /\ nSend = 2

\* C6: can_init is called before can_static_filter, and can_static_filter
\* before the first can_send_message and the first can_check_message; no
\* poll, receive or send happens while the table is not installed.
C6_InstallBeforeUse ==
    /\ installed # <<>> => initialized
    /\ (nSend > 0 \/ nPoll > 0 \/ nRecvOk > 0 \/ nRecvFail > 0) =>
          initialized /\ installed = can_filter
    /\ pc \in {"send_seed", "led_off", "check", "get", "add", "send"} =>
          initialized /\ installed = can_filter
    /\ rx # <<>> => installed = can_filter

C6_Witness ==
    /\ installed = can_filter
    /\ initialized
    /\ nPoll >= 1
    /\ EchoSent

\* C10: main never returns: the control state goes BOOT, SEED_SENT, POLLING
\* in that order, and after POLLING is reached it is POLLING for ever.
C10_NeverReturns ==
    [][ /\ State = "POLLING" => State' = "POLLING"
        /\ State' # State =>
              \/ State = "BOOT" /\ State' = "SEED_SENT"
              \/ State = "SEED_SENT" /\ State' = "POLLING"
        /\ State' # "RETURNED" ]_vars

C10_Witness ==
    /\ State = "POLLING"
    /\ nPoll = MaxPolls
    /\ pc = "check"

\* C11: when the can_send_message call of line 214 fails it is not repeated:
\* the test message is handed over once, and main goes on to the first
\* can_check_message call whether that call succeeded or failed.
C11_SeedFailureNotRetried ==
    /\ nSeedTx <= 1
    /\ State = "SEED_SENT" =>
          /\ nSend = 1 /\ nSeedTx = 1
          /\ last.op = "send"
          /\ nSendFail = (IF last.ret THEN 0 ELSE 1)
          /\ ENABLED LedOffAfterInit
    /\ (pc = "check" /\ nPoll = 0) =>
          /\ nSend = 1 /\ nSeedTx = 1
          /\ last.op = "send"
          /\ nSendFail = (IF last.ret THEN 0 ELSE 1)
          /\ ENABLED Check
    /\ (nPoll >= 1 /\ nRecvOk = 0) => nSend = 1 /\ nSeedTx = 1

C11_Witness ==
    /\ nSendFail = 1
    /\ nSend = 1
    /\ nSeedTx = 1
    /\ nPoll >= 1

\* C12: when the can_send_message call of the loop fails, the next driver
\* call is can_check_message; the frame is not handed over a second time
\* (every call of the loop follows its own successful can_get_message), and
\* what main does next is the same after a failed and a successful call.
C12_EchoFailureNotRetried ==
    [][ /\ (pc = "send" /\ nSend' # nSend) =>
              /\ pc' = "check"
              /\ nSend' = nSend + 1
              /\ UNCHANGED <<msg, msg_loop, rx, installed, led>>
        /\ (last.op = "send" /\ ~last.ret) =>
              /\ nSend' = nSend
              /\ last' = last \/ last'.op = "poll"
        /\ pc' = "check" => nSend' = 1 + nRecvOk'
        /\ (nSendFail' > 0 /\ last'.op = "send" /\ nSend' >= 2) =>
              ToWire(last'.frame) = [got' EXCEPT !.id = got'.id + 10] ]_vars

C12_Witness ==
    /\ nSend = 3
    /\ nSendFail = 2
    /\ last.op = "send"
    /\ last.ret

\* C13: a cycle is one can_check_message call, at most one can_get_message
\* call and at most one can_send_message call; every successful
\* can_get_message is followed by one can_send_message before the next
\* poll, so at each poll the calls of can_send_message number 1 plus the
\* successful can_get_message calls.
C13_OneFramePerCycle ==
    /\ State = "POLLING" =>
          /\ nRecvOk + nRecvFail <= nPoll
          /\ nSend <= 1 + nPoll
    /\ pc = "get" => nRecvOk + nRecvFail < nPoll
    /\ pc \in {"check", "get"} => nSend = 1 + nRecvOk
    /\ pc \in {"add", "send"} => nSend = nRecvOk

C13_Witness ==
    /\ pc = "check"
    /\ nPoll = 3
    /\ nRecvOk = 2
    /\ nRecvFail = 1
    /\ nSend = 3

\* C15: the table is loaded once, before the loop, and no step of the loop
\* changes it: in POLLING the loaded table is can_filter.
C15_TableNeverChanges ==
    [][ /\ installed' # installed =>
              /\ installed = <<>>
              /\ pc = "can_static_filter"
              /\ installed' = can_filter
        /\ State = "POLLING" =>
              /\ installed = can_filter
              /\ installed' = installed ]_vars

C15_Witness ==
    /\ State = "POLLING"
    /\ installed = can_filter
    /\ nRecvFail >= 1
    /\ EchoSent
    /\ nPoll = MaxPolls

-----------------------------------------------------------------------------
(* Acceptance of one frame *)

\* tables a deployment may load: the table of the program, the three tables
\* of the documentation comment, and tables with other filter and mask values
ProbeTables ==
    { can_filter, FilterStdOnly, FilterExtOnly, FilterBoth,
      \* masks of all zeros with filters that are not
      << MCP2515_FILTER(291), MCP2515_FILTER(2047),
         MCP2515_FILTER_EXTENDED(SEED_ID), MCP2515_FILTER_EXTENDED(2 ^ ExtBits - 1),
         MCP2515_FILTER_EXTENDED(1), MCP2515_FILTER_EXTENDED(2 ^ EidBits),
         MCP2515_FILTER(0), MCP2515_FILTER_EXTENDED(0) >>,
      \* partial masks, standard group 0 and extended group 1
      << MCP2515_FILTER(1365), MCP2515_FILTER(682),
         MCP2515_FILTER_EXTENDED(SEED_ID), MCP2515_FILTER_EXTENDED(2 ^ ExtBits - 1),
         MCP2515_FILTER_EXTENDED(4), MCP2515_FILTER_EXTENDED(255 * (2 ^ EidBits)),
         MCP2515_FILTER(1792), MCP2515_FILTER_EXTENDED(2 ^ ExtBits - 256) >>,
      \* partial masks, extended group 0 and standard group 1
      << MCP2515_FILTER_EXTENDED(SEED_ID - OFFSET), MCP2515_FILTER_EXTENDED(0),
         MCP2515_FILTER(1), MCP2515_FILTER(1024),
         MCP2515_FILTER(2038), MCP2515_FILTER(16),
         MCP2515_FILTER_EXTENDED(2 ^ EidBits - 1), MCP2515_FILTER(1025) >> }

\* every standard identifier
StdFrames == { Wire(id, FALSE, FALSE, <<1, 2>>) : id \in 0 .. 2 ^ StdBits - 1 }

\* identifiers of both widths with few, many and single bits set
SampleFrames ==
    { Wire(id, FALSE, FALSE, <<1, 2>>) :
         id \in {0, 1, 4, 16, 255, 682, 1024, 1365, 2038, 2047} }
    \cup
    { Wire(id, TRUE, FALSE, SeedData) :
         id \in {0, 1, 4, 8, 12, 255, SEED_ID - OFFSET, SEED_ID,
                 2 ^ (EidBits - 1), 2 ^ EidBits, 4 * (2 ^ EidBits),
                 255 * (2 ^ EidBits), 2 ^ (ExtBits - 1), 2 ^ ExtBits - 1} }

ProbeFrames(table) ==
    IF table \in {can_filter, FilterStdOnly}
    THEN StdFrames \cup SampleFrames
    ELSE SampleFrames

\* the frame of the acceptance specification appears on the bus, once
ProbeArrives ==
    /\ probe # NoFrame
    /\ filhit = <<>>
    /\ Arrive(probe)

\* main has sent the test message and is about to poll for the first time;
\* a table is loaded and one frame is about to appear on the bus
InitFilter ==
    /\ pc = "check"
    /\ led = FALSE
    /\ msg = CanT(SEED_ID, TRUE, FALSE, SEED_LENGTH,
                  [k \in 1 .. 8 |->
                      IF k <= Len(SeedData) THEN SeedData[k] ELSE 0])
    /\ msg_loop = NoFrame
    /\ initialized = TRUE
    /\ installed \in ProbeTables
    /\ rx = <<>>
    /\ filhit = <<>>
    /\ probe \in ProbeFrames(installed)
    /\ last = Call("send", TRUE, msg)
    /\ got = NoFrame
    /\ nPoll = 0
    /\ nRecvOk = 0
    /\ nRecvFail = 0
    /\ nSend = 1
    /\ nSeedTx = 1
    /\ nSendFail = 0

NextFilter ==
    \/ ProbeArrives
    \/ Check
    \/ Get
    \/ AddOffset
    \/ SendEcho

SpecFilter == InitFilter /\ [][NextFilter]_vars

-----------------------------------------------------------------------------
(* Properties of the acceptance filtering *)

\* the probe frame has been compared with the table
Probed == filhit # <<>>

\* main has not called can_get_message yet
NothingRead == nRecvOk = 0 /\ nRecvFail = 0

\* the identifier a filter or mask register was built from
RawId(reg) == IF reg.exide THEN reg.sid * (2 ^ EidBits) + reg.eid ELSE reg.sid

\* C7: with the table of the program a standard identifier is accepted if
\* and only if it is 0x000, 0x004, 0x008, 0x00C or 0x0FF; 0x010 is rejected,
\* never reaches the loop and causes no can_send_message call.
C7_ReferenceTable ==
    (installed = can_filter /\ ~probe.extended) =>
       /\ Probed => (Accepted(filhit[1]) <=> probe.id \in {0, 4, 8, 12, 255})
       /\ (Probed /\ NothingRead) =>
             (rx = <<probe>> <=> probe.id \in {0, 4, 8, 12, 255})
       /\ (rx # <<>> \/ got # NoFrame \/ nSend > 1) =>
             probe.id \in {0, 4, 8, 12, 255}
       /\ probe.id = 16 => rx = <<>> /\ got = NoFrame /\ nSend = 1

C7_Witness ==
    /\ installed = can_filter
    /\ probe = Wire(16, FALSE, FALSE, <<1, 2>>)
    /\ Probed
    /\ nPoll = MaxPolls
    /\ nSend = 1

\* C8: a filter with its mask, both of the width of the frame, matches the
\* identifier I if and only if at every bit position where the mask bit is 1
\* the bit of I equals the bit of the filter; the frame is accepted if a
\* filter of any group matches.
C8_FilterMaskRule ==
    Probed =>
       /\ \A k \in 0 .. 5 :
             LET F == installed[k + 1]
                 M == installed[IF k <= 1 THEN 7 ELSE 8]
                 w == IF probe.extended THEN 29 ELSE 11
             IN  (F.exide = M.exide /\ F.exide = probe.extended) =>
                    (k \in filhit[1] <=>
                       \A n \in 0 .. w - 1 :
                          Bit(RawId(M), n) = 1 =>
                             Bit(probe.id, n) = Bit(RawId(F), n))
       /\ NothingRead =>
             (rx = <<probe>> <=>
                 (filhit[1] \cap {0, 1} # {} \/ filhit[1] \cap {2, 3, 4, 5} # {}))

C8_Witness ==
    /\ installed[7] = MCP2515_FILTER(1792)
    /\ probe = Wire(1365, FALSE, FALSE, <<1, 2>>)
    /\ filhit = << {0} >>
    /\ got = probe

\* C9: a group whose mask is all zeros accepts every identifier of the
\* width of its filters, whatever the filter values; the table of
\* MCP2515_FILTER(0) entries receives every 11 bit identifier and the table
\* of MCP2515_FILTER_EXTENDED(0) entries every 29 bit identifier.
C9_ZeroMaskAcceptsAll ==
    Probed =>
       /\ \A g \in {0, 1} :
             LET M  == installed[7 + g]
                 ks == IF g = 0 THEN {1, 2} ELSE {3, 4, 5, 6}
             IN  (/\ M.sid = 0 /\ M.eid = 0
                  /\ \E k \in ks : installed[k].exide = probe.extended) =>
                    /\ \E k \in ks : (k - 1) \in filhit[1]
                    /\ NothingRead => rx = <<probe>>
       /\ (installed = FilterStdOnly /\ ~probe.extended /\ NothingRead) =>
             rx = <<probe>>
       /\ (installed = FilterExtOnly /\ probe.extended /\ NothingRead) =>
             rx = <<probe>>

C9_Witness ==
    /\ installed[8] = MCP2515_FILTER_EXTENDED(0)
    /\ installed[3] = MCP2515_FILTER_EXTENDED(SEED_ID)
    /\ probe = Wire(2 ^ ExtBits - 1, TRUE, FALSE, SeedData)
    /\ filhit = << {2, 3, 4, 5} >>
    /\ got = probe

-----------------------------------------------------------------------------
(* Properties of the identifiers sent *)

\* C14: the sum is neither checked nor masked: a standard frame with
\* identifier above 0x7F5 (an extended frame above 0x1FFFFFF5) is sent back
\* with identifier + 10, beyond 11 (29) bits, and with its width flag as
\* received.
C14_NoWraparoundCheck ==
    EchoSent =>
       /\ last.frame.id = got.id + 10
       /\ last.frame.extended = got.extended
       /\ (~got.extended /\ got.id > 2037) => last.frame.id > 2047
       /\ (got.extended /\ got.id > 536870901) => last.frame.id > 536870911

C14_Witness ==
    /\ EchoSent
    /\ got = Wire(2047, FALSE, FALSE, <<1, 2>>)
    /\ last.frame.id = 2057
    /\ ~last.frame.extended

\* C16: with the table of the program no extended frame reaches the loop,
\* not even one whose identifier is 0x000, 0x004, 0x008, 0x00C or 0x0FF, so
\* every frame the loop sends is a standard frame.
C16_WidthsNotConflated ==
    installed = can_filter =>
       /\ probe.extended =>
             /\ Probed => filhit[1] = {}
             /\ rx = <<>>
             /\ got = NoFrame
             /\ nSend = 1
       /\ EchoSent => ~last.frame.extended /\ ~got.extended

C16_Witness ==
    /\ installed = can_filter
    /\ probe = Wire(4, TRUE, FALSE, SeedData)
    /\ Probed
    /\ nPoll = MaxPolls
    /\ nSend = 1

\* C18: with the table of the program every frame the loop sends has an
\* identifier among 0x00A, 0x00E, 0x012, 0x016 and 0x109, none above 0x7FF.
C18_EchoIdentifiers ==
    (installed = can_filter /\ EchoSent) =>
       /\ last.frame.id \in {10, 14, 18, 22, 265}
       /\ last.frame.id <= 2047

C18_Witness ==
    /\ installed = can_filter
    /\ EchoSent
    /\ got.id = 12
    /\ last.frame.id = 22

\* C19: no frame the program sends is accepted by the table of the program:
\* both groups reject the test message and every echoed identifier, so a
\* node with the same table does not answer them, and one frame on the bus
\* causes at most one can_send_message call.
C19_OwnOutputRejected ==
    installed = can_filter =>
       /\ last.op = "send" =>
             /\ FilterHits(can_filter, ToWire(last.frame)) = {}
             /\ \A g \in {0, 1} : ~GroupAccepts(can_filter, g, ToWire(last.frame))
       /\ pc = "send" => ~TableAccepts(can_filter, ToWire(msg_loop))
       /\ nSend <= 2

C19_Witness ==
    /\ installed = can_filter
    /\ EchoSent
    /\ got.id = 255
    /\ last.frame.id = 265
    /\ FilterHits(can_filter, ToWire(last.frame)) = {}

-----------------------------------------------------------------------------
(* The loop followed for ever *)

\* the steps of main(): the only thread of the program
Main ==
    \/ LedBlinkStart
    \/ CanInit
    \/ LedBlinkInit
    \/ CanStaticFilter
    \/ CreateMsg
    \/ SendSeed
    \/ LedOffAfterInit
    \/ Check
    \/ Get
    \/ AddOffset
    \/ SendEcho

\* the counts of calls start over at the values they have when the loop is
\* entered; the program and the MCP2515 are left as they are
Rewind ==
    /\ pc = "check"
    /\ nPoll = MaxPolls
    /\ nPoll' = 0
    /\ nRecvOk' = 0
    /\ nRecvFail' = 0
    /\ nSend' = 1
    /\ nSeedTx' = 1
    /\ nSendFail' = 0
    /\ UNCHANGED <<pc, led, msg, msg_loop, hw, last, got>>

NextLive ==
    \/ Main
    \/ BusTraffic
    \/ Rewind

\* every driver call returns and nothing else runs on the controller, so
\* main() always takes its next step; other nodes may stay silent
SpecLive ==
    /\ Init
    /\ [][NextLive]_vars
    /\ WF_vars(Main)
    /\ WF_vars(Rewind)

\* C17: the loop polls infinitely often: whatever can_check_message,
\* can_get_message and can_send_message return, another can_check_message
\* call follows, and between two polls main does nothing but the
\* can_get_message call, the addition and the can_send_message call of that
\* cycle.
C17_PollsForEver ==
    /\ []<><<Check>>_vars
    /\ (pc \in {"get", "add", "send"}) ~> (pc = "check")
    /\ [][ /\ (pc = "check" /\ pc' # pc) =>
                 pc' = "get" /\ last' = Call("poll", TRUE, NoFrame)
           /\ (pc = "get" /\ pc' # pc) =>
                 /\ last'.op = "recv"
                 /\ pc' = (IF last'.ret THEN "add" ELSE "check")
           /\ (pc = "add" /\ pc' # pc) => pc' = "send" /\ last' = last
           /\ (pc = "send" /\ pc' # pc) =>
                 pc' = "check" /\ last'.op = "send"
           /\ (State = "POLLING" /\ last' # last) =>
                 \/ pc = "check" /\ last'.op = "poll"
                 \/ pc = "get" /\ last'.op = "recv"
                 \/ pc = "send" /\ last'.op = "send" ]_vars

\* a poll after the counts have started over, with a frame echoed before
C17_Witness ==
    /\ pc = "check"
    /\ last.op = "poll"
    /\ nPoll = 1
    /\ nSend = 1
    /\ got # NoFrame

====
